---- MODULE Spec2Model ----
(***************************************************************************)
(* The chat session controller of omop-healthcare-ui: the React component  *)
(* state of src/app/page.tsx (manual-credential variant, Home) and of the  *)
(* hosted-auth variant (ChatInterface), with the asynchronous handleSubmit *)
(* split at its await points.                                              *)
(*                                                                         *)
(* JavaScript values are records tagged by k.  A string is one of          *)
(*   [k |-> "str", lit   |-> "..."]   a literal of the source text         *)
(*   [k |-> "str", chars |-> <<..>>]  text typed by the user               *)
(*   [k |-> "str", json  |-> v]       the JSON serialisation of v          *)
(* The hosted variant is modelled for the lifetime of one ChatInterface    *)
(* mount: the Authenticator that mounts it is a library.                   *)
(***************************************************************************)
EXTENDS Integers, Sequences, FiniteSets, TLC

\* ---- bounds ----
MaxRequests == 2     \* requests issued in one behaviour

Whitespace == {" "}

\* ---- JavaScript values ----
Undefined == [k |-> "undefined"]
JNull == [k |-> "null"]
Lit(s) == [k |-> "str", lit |-> s]
Str(cs) == [k |-> "str", chars |-> cs]
Obj(f) == [k |-> "obj", f |-> f]
Bytes(s) == [k |-> "bytes", utf8 |-> s]

Return(v) == [thrown |-> FALSE, v |-> v]
Throw == [thrown |-> TRUE]
\* sequencing inside a try block: a throw skips the rest
Then(r, F(_)) == IF r.thrown THEN Throw ELSE F(r.v)

\* String.prototype.trim on a sequence of characters
RECURSIVE TrimStart(_)
TrimStart(cs) ==
  IF cs # <<>> /\ Head(cs) \in Whitespace THEN TrimStart(Tail(cs)) ELSE cs

RECURSIVE TrimEnd(_)
TrimEnd(cs) ==
  IF cs # <<>> /\ cs[Len(cs)] \in Whitespace
    THEN TrimEnd(SubSeq(cs, 1, Len(cs) - 1)) ELSE cs

Trim(cs) == TrimEnd(TrimStart(cs))

\* truthiness of a string: the empty string is falsy
Truthy(cs) == cs # <<>>

\* JSON.stringify / JSON.parse.  The argument of parse is coerced to a
\* string first: null reads as the text "null", undefined and objects as
\* texts that are not JSON; typed text and literals here are never JSON.
JSONStringify(v) == [k |-> "str", json |-> v]

JSONParse(x) ==
  IF x.k = "str" /\ "json" \in DOMAIN x THEN Return(x.json)
  ELSE IF x.k = "null" THEN Return(JNull)
  ELSE Throw

\* property read v.name: throws on null and undefined, yields undefined
\* for a missing property
GetProp(v, name) ==
  IF v.k \in {"undefined", "null"} THEN Throw
  ELSE IF v.k = "obj" /\ name \in DOMAIN v.f THEN Return(v.f[name])
  ELSE Return(Undefined)

\* new TextDecoder().decode(payload): undefined decodes to the empty string
TextDecode(p) == IF p.k = "bytes" THEN p.utf8 ELSE Str(<<>>)

\* ---- the messages ----
GreetingText(v) ==
  IF v = "manual"
    THEN Lit("Hello! I'm your OMOP Healthcare Assistant. Ask me about patients, procedures, medications, or any healthcare data.")
    ELSE Lit("Hello! I'm your healthcare Assistant. Ask me about patients, procedures, medications, or any healthcare data regarding this hospital and I can show you how we get the data from our OMOP database.")

Greeting(v) == [text |-> GreetingText(v), sender |-> "bot"]
ApologyText == Lit("Sorry, I encountered an error processing your request.")

userMessageTrimmed(q) == [text |-> Str(Trim(q)), sender |-> "user"]
userMessage(q) == [text |-> Str(q), sender |-> "user"]
sqlMessageUntagged(t) == [text |-> t, sender |-> "bot"]
sqlMessage(t) == [text |-> t, sender |-> "bot", type |-> "sql"]
summaryMessage(t) == [text |-> t, sender |-> "bot", type |-> "summary"]
errorMessage == [text |-> ApologyText, sender |-> "bot"]

\* ---- the inputs the environment can supply ----
\* texts typed into the question field: empty, blank, plain, and padded
\* on either side
Inputs ==
  { <<>>, <<" ">>, <<" ", " ">>, <<"a">>, <<" ", "a">>, <<"a", " ">> }
\* texts typed into a credential field
Keys == { <<>>, <<"k">> }

SqlText == Str(<<"q">>)
SummaryText == Str(<<"s">>)
Garbage == Str(<<"a">>)

\* decoded bodies: objects with any subset of the two fields
DataObjects ==
  { Obj([n \in D |-> IF n = "sql_query" THEN SqlText ELSE SummaryText]) :
      D \in SUBSET {"sql_query", "summary"} }

Bodies == {Garbage, JSONStringify(JNull)} \cup {JSONStringify(d) : d \in DataObjects}

PayloadTexts ==
  {Garbage, JSONStringify(JNull), JSONStringify(Obj(<<>>))}
    \cup {JSONStringify(Obj([n \in {"body"} |-> b])) : b \in Bodies}

\* what awaiting lambdaClient.send(command) can produce
SendOutcomes ==
  {Throw} \cup {Return(Obj([n \in {"Payload"} |-> p])) :
                  p \in {Undefined} \cup {Bytes(t) : t \in PayloadTexts}}

\* what awaiting fetchAuthSession() can produce
SessionOutcomes ==
  {Throw, Return(Obj([n \in {"credentials"} |-> Obj(<<>>)])), Return(Obj(<<>>))}

VARIABLES variant, input, messages, isLoading, isSignedIn, credentials,
          inflight, nextId, answered, lastEvent

vars == <<variant, input, messages, isLoading, isSignedIn, credentials,
          inflight, nextId, answered, lastEvent>>

NoCredentials == [accessKey |-> <<>>, secretKey |-> <<>>]

Init ==
  /\ variant \in {"manual", "hosted"}
  /\ input = <<>>
  /\ messages = <<Greeting(variant)>>
  /\ isLoading = FALSE
  /\ isSignedIn = (variant = "hosted")
  /\ credentials = NoCredentials
  /\ inflight = {}
  /\ nextId = 1
  /\ answered = <<>>
  /\ lastEvent = [op |-> "mount"]

\* the chat view (transcript and question form) is rendered
ChatRendered == isSignedIn
\* the question field is disabled while a request is in flight
InputNeverDisabled == FALSE
InputDisabled == isLoading

\* ---- the sign-in form (manual variant, lines 107-140) ----
SetCredentials(field, s) ==
  /\ variant = "manual"
  /\ ~isSignedIn
  /\ credentials' = [credentials EXCEPT ![field] = s]
  /\ lastEvent' = [op |-> "setCredentials"]
  /\ UNCHANGED <<variant, input, messages, isLoading, isSignedIn, inflight, nextId, answered>>

handleSignIn ==
  /\ variant = "manual"
  /\ ~isSignedIn
  /\ isSignedIn' = (Truthy(credentials.accessKey) /\ Truthy(credentials.secretKey))
  /\ lastEvent' = [op |-> "signIn"]
  /\ UNCHANGED <<variant, input, messages, isLoading, credentials, inflight, nextId, answered>>

handleSignOut ==
  /\ variant = "manual"
  /\ isSignedIn
  /\ isSignedIn' = FALSE
  /\ credentials' = NoCredentials
  /\ messages' = <<Greeting(variant)>>
  /\ lastEvent' = [op |-> "signOut"]
  /\ UNCHANGED <<variant, input, isLoading, inflight, nextId, answered>>

\* ---- the question form ----
SetInput(s) ==
  /\ ChatRendered
  /\ ~InputDisabled
  /\ input' = s
  /\ lastEvent' = [op |-> "setInput"]
  /\ UNCHANGED <<variant, messages, isLoading, isSignedIn, credentials, inflight, nextId, answered>>

\* the guard of handleSubmit: if (!input.trim()) return
SubmitRejectedNoTrim(q) == ~Truthy(q)
SubmitRejected(q) == ~Truthy(Trim(q))

\* the request as it stands at the first await of handleSubmit
NewRequest(id, q) ==
  [id |-> id,
   payload |-> JSONStringify(Obj([n \in {"question"} |-> Str(q)])),
   pc |-> IF variant = "manual" THEN "send" ELSE "session"]

\* handleSubmit up to its first await
handleSubmit ==
  /\ ChatRendered
  /\ lastEvent' = [op |-> "submit", q |-> input]
  /\ IF SubmitRejected(input)
       THEN UNCHANGED <<variant, input, messages, isLoading, isSignedIn,
                        credentials, inflight, nextId, answered>>
       ELSE /\ nextId <= MaxRequests
            /\ messages' = Append(messages, userMessage(input))
            /\ isLoading' = TRUE
            /\ input' = <<>>
            /\ inflight' = inflight \cup {NewRequest(nextId, input)}
            /\ nextId' = nextId + 1
            /\ UNCHANGED <<variant, isSignedIn, credentials, answered>>

\* lines 63-66: the response of send decoded down to data
DecodeBody(res) ==
  LET decodedPayload == Then(res, LAMBDA response :
                               Then(GetProp(response, "Payload"),
                                    LAMBDA p : Return(TextDecode(p))))
      parsedResponse == Then(decodedPayload, JSONParse)
  IN  Then(Then(parsedResponse, LAMBDA p : GetProp(p, "body")), JSONParse)

\* the messages the try block and the catch block append after
\* "await lambdaClient.send(command)", in the order of their setMessages calls
Replies(res) ==
  LET data == DecodeBody(res)
      sqlText == Then(data, LAMBDA d : GetProp(d, "sql_query"))
      msgs1 == IF sqlText.thrown THEN <<>> ELSE <<sqlMessage(sqlText.v)>>
      summaryText == IF sqlText.thrown THEN Throw ELSE GetProp(data.v, "summary")
      msgs2 == IF summaryText.thrown THEN msgs1
               ELSE Append(msgs1, summaryMessage(summaryText.v))
  IN  IF summaryText.thrown THEN Append(msgs2, errorMessage) ELSE msgs2

\* setMessages(prev => [...prev, m]) for each reply
AfterSendPrepend(msgs, res) == Replies(res) \o msgs
AfterSend(msgs, res) == msgs \o Replies(res)

\* the finally block: setIsLoading(false)
FinallyMissing == TRUE
Finally == FALSE

\* fetchAuthSession() settles and handleSubmit resumes (hosted variant)
SessionSettles(r, res) ==
  /\ r \in inflight
  /\ r.pc = "session"
  /\ lastEvent' = [op |-> "session", id |-> r.id, res |-> res]
  /\ IF res.thrown
       THEN /\ messages' = Append(messages, errorMessage)
            /\ isLoading' = Finally
            /\ inflight' = inflight \ {r}
            /\ answered' = Append(answered, r.id)
       ELSE /\ inflight' = (inflight \ {r}) \cup {[r EXCEPT !.pc = "send"]}
            /\ UNCHANGED <<messages, isLoading, answered>>
  /\ UNCHANGED <<variant, input, isSignedIn, credentials, nextId>>

\* lambdaClient.send(command) settles and handleSubmit runs to its end
SendSettles(r, res) ==
  /\ r \in inflight
  /\ r.pc = "send"
  /\ lastEvent' = [op |-> "send", id |-> r.id, res |-> res]
  /\ messages' = AfterSend(messages, res)
  /\ isLoading' = Finally
  /\ inflight' = inflight \ {r}
  /\ answered' = Append(answered, r.id)
  /\ UNCHANGED <<variant, input, isSignedIn, credentials, nextId>>

Next ==
  \/ \E f \in {"accessKey", "secretKey"}, s \in Keys : SetCredentials(f, s)
  \/ handleSignIn
  \/ handleSignOut
  \/ \E s \in Inputs : SetInput(s)
  \/ handleSubmit
  \/ \E r \in inflight, res \in SessionOutcomes : SessionSettles(r, res)
  \/ \E r \in inflight, res \in SendOutcomes : SendSettles(r, res)

Spec == Init /\ [][Next]_vars

\* every issued external call eventually returns or throws
FairSpec ==
  /\ Spec
  /\ WF_vars(\E r \in inflight, res \in SessionOutcomes : SessionSettles(r, res))
  /\ WF_vars(\E r \in inflight, res \in SendOutcomes : SendSettles(r, res))

TypeOK ==
  /\ input \in Inputs
  /\ isLoading \in BOOLEAN
  /\ isSignedIn \in BOOLEAN
  /\ nextId \in 1..(MaxRequests + 1)
  /\ \A i \in 1..Len(messages) : messages[i].sender \in {"user", "bot"}

\* ---- helpers of the properties ----
IsPrefix(s, t) == Len(s) <= Len(t) /\ SubSeq(t, 1, Len(s)) = s
HasType(m, t) == "type" \in DOMAIN m /\ m.type = t
IsApology(m) == m = [text |-> ApologyText, sender |-> "bot"]
IsUser(m) == m.sender = "user"
Count(s, P(_)) == Cardinality({i \in 1..Len(s) : P(s[i])})
IsUnit(m) == IsApology(m) \/ HasType(m, "sql")

\* the step just taken completed a request (its catch or its last statement ran)
Completes == answered' # answered
\* the outcome the completed request received
Outcome == lastEvent'.res

\* the failures the claim lists: a throw, a payload or body that is not
\* JSON, a decoded body without sql_query or without summary
HasBothFields(res) ==
  /\ ~DecodeBody(res).thrown
  /\ DecodeBody(res).v.k = "obj"
  /\ {"sql_query", "summary"} \subseteq DOMAIN DecodeBody(res).v.f
IsFailure(ev) == ev.res.thrown \/ (ev.op = "send" /\ ~HasBothFields(ev.res))

\* C1 (as stated): every failed request, a body lacking sql_query or summary
\* included, appends exactly the untagged apology and no tagged message.
C1_FailureAppendsOnlyApology ==
  [][(Completes /\ IsFailure(lastEvent'))
       => messages' = Append(messages, [text |-> ApologyText, sender |-> "bot"])]_vars

\* C2: the in-flight flag is true exactly when a request is outstanding.
C2_LoadingIffOutstanding == isLoading = (inflight # {})
C2_Witness == variant = "manual" /\ ~isSignedIn /\ isLoading /\ inflight # {}

\* C3 (as stated): sign-out leaves the state of a fresh mount.
C3_SignOutIsFreshMount ==
  [][lastEvent'.op = "signOut"
       => /\ ~isSignedIn'
          /\ credentials' = [accessKey |-> <<>>, secretKey |-> <<>>]
          /\ messages' = <<Greeting(variant)>>
          /\ ~isLoading'
          /\ input' = <<>>]_vars

\* C4 (as stated): every transition extends the transcript.
C4_AppendOnly == [][IsPrefix(messages, messages')]_vars
\* C4 (amended): every transition other than sign-out extends the
\* transcript; sign-out replaces it by the single greeting.
C4_AppendOnlyButSignOut ==
  [][IF lastEvent'.op = "signOut"
       THEN messages' = <<Greeting(variant)>>
       ELSE IsPrefix(messages, messages')]_vars
C4_Witness == lastEvent.op = "signOut" /\ Len(answered) >= 1 /\ Len(messages) = 1

\* C5: a response whose decoded body has both fields appends the sql
\* message then the summary message, nothing else, and clears the flag.
C5_SuccessAppendsPair ==
  [][(Completes /\ lastEvent'.op = "send" /\ HasBothFields(Outcome))
       => /\ messages' = messages \o
               << [text |-> DecodeBody(Outcome).v.f.sql_query, sender |-> "bot", type |-> "sql"],
                  [text |-> DecodeBody(Outcome).v.f.summary, sender |-> "bot", type |-> "summary"] >>
          /\ ~isLoading']_vars
C5_Witness ==
  /\ lastEvent.op = "send"
  /\ HasBothFields(lastEvent.res)
  /\ Len(messages) >= 4
  /\ messages[Len(messages) - 2].sender = "user"
  /\ messages[Len(messages) - 1] = [text |-> SqlText, sender |-> "bot", type |-> "sql"]
  /\ messages[Len(messages)] = [text |-> SummaryText, sender |-> "bot", type |-> "summary"]

\* C6: a submit of a non-blank question appends one user message with the
\* untrimmed text, sets the flag, clears the field, and leaves one new
\* unresolved request carrying that question.
C6_SubmitAppendsQuestion ==
  [][(lastEvent'.op = "submit" /\ Trim(input) # <<>>)
       => /\ messages' = Append(messages, [text |-> Str(input), sender |-> "user"])
          /\ isLoading'
          /\ input' = <<>>
          /\ \E r \in inflight' :
               /\ r \notin inflight
               /\ inflight' = inflight \cup {r}
               /\ r.pc \in {"session", "send"}
               /\ r.payload = JSONStringify(Obj([n \in {"question"} |-> Str(input)]))]_vars
C6_Witness ==
  /\ lastEvent.op = "submit"
  /\ lastEvent.q # Trim(lastEvent.q)
  /\ Trim(lastEvent.q) # <<>>
  /\ messages[Len(messages)] = [text |-> Str(lastEvent.q), sender |-> "user"]
  /\ isLoading

\* C7: a submit of an empty or whitespace-only input changes nothing.
C7_BlankSubmitNoOp ==
  [][(lastEvent'.op = "submit" /\ Trim(input) = <<>>)
       => UNCHANGED <<messages, inflight, isLoading, input, isSignedIn,
                      credentials, nextId, answered>>]_vars
C7_Witness ==
  /\ lastEvent.op = "submit"
  /\ lastEvent.q # <<>>
  /\ Trim(lastEvent.q) = <<>>
  /\ input = lastEvent.q

\* C8: at most one request is outstanding and requests are answered in the
\* order they were issued.
C8_OneAtATimeInOrder ==
  /\ Cardinality(inflight) <= 1
  /\ \A i \in 1..Len(answered) : answered[i] = i
C8_Witness == Len(answered) >= 2 /\ variant = "manual" /\ ~isSignedIn

\* C9: whenever the in-flight flag is true it is eventually false.
C9_LoadingEventuallyCleared == isLoading ~> ~isLoading
C9_Witness ==
  /\ variant = "manual"
  /\ lastEvent.op = "send"
  /\ ~isLoading
  /\ \A i \in 1..Len(messages) : ~IsUser(messages[i])

\* C10 (as stated): at every point of the transcript the response units
\* (apologies and sql/summary pairs) so far are no more than the user
\* messages so far.
C10_RepliesFollowQuestions ==
  \A n \in 1..Len(messages) :
    Count(SubSeq(messages, 1, n), IsUnit) <= Count(SubSeq(messages, 1, n), IsUser)

====
